---- MODULE Spec2Model ----
(***************************************************************************)
(* A model of the Suvarna Prompt front-end (src/App.tsx and the service    *)
(* module in src/unnamed/part_000).                                        *)
(*                                                                         *)
(* The specifications of the module:                                       *)
(*   Spec            the recording controller: startRecording,             *)
(*                   stopRecording, cleanupAudio, the live-session         *)
(*                   callbacks and the audio capture callback;             *)
(*   SpecTranscript  recording turns, onmessage and the user's edits;      *)
(*   SpecHistory     conversion requests and the history collection;       *)
(*   SpecMount       the two history effects at mount time;                *)
(*   SpecPreview     the debounced preview;                                *)
(*   SpecChat        the ChatBot component;                                *)
(*   SpecTeardown    cleanupAudio on its own, with throwing releases;      *)
(*   SpecBlob        createBlob on its own;                                *)
(*   SpecIdle        the three busy flags, with fairness.                  *)
(* The parts of App share only inputText; the Convert button is disabled   *)
(* while isRecording, and no recording handler reads inputText.            *)
(*                                                                         *)
(* Every recording turn (one call of startRecording) gets an index         *)
(* 1..MaxTurns; the browser objects a turn creates (media stream, audio    *)
(* context, source node, processor node, live session) carry the turn's    *)
(* index, and the four React refs hold the index of the object they point  *)
(* to (0 for null).                                                        *)
(***************************************************************************)
EXTENDS Integers, Sequences, FiniteSets, TLC

\* ------------------------------------------------------------------ bounds
MaxTurns == 2       \* calls of startRecording
MaxBlocks == 2      \* audio blocks captured, over all turns
MaxMsgs == 2        \* messages delivered to onmessage, over all turns
MaxConv == 1        \* handleConvert calls that send a request
MaxClock == 2       \* Date.now() stays below MaxClock + 1
MaxPreview == 2     \* quickPreview calls
MaxChat == 2        \* sendChatMessage calls
MaxSamples == 2     \* samples in a frame handed to createBlob
MaxReleases == 4    \* release calls counted in the teardown specification
SampleScale == 4    \* audio samples are the multiples of 1/SampleScale

Turns == 1..MaxTurns

\* Text is a sequence of characters.
\* The transcription text a LiveServerMessage may carry: `NoText` stands for
\* a message without serverContent.inputTranscription (or with empty text).
NoText == <<>>
Fragments == {NoText, <<"a">>, <<"b", "a">>}

VARIABLES
    \* ---- App state (src/App.tsx 20-40)
    inputText,          \* useState('')
    isRecording,        \* useState(false)
    audioContextRef,    \* useRef: turn whose AudioContext it holds, 0 = null
    streamRef,          \* useRef: turn whose MediaStream it holds, 0 = null
    processorRef,       \* useRef: turn whose ScriptProcessorNode, 0 = null
    sourceRef,          \* useRef: turn whose MediaStreamAudioSourceNode
    \* ---- the recording turns and the browser objects they created
    nTurns,             \* startRecording calls so far
    pc,                 \* per turn: "none" | "awaitMedia" | "wired" | "failed"
    stream,             \* per turn: "none" | "live" | "stopped"
    ctx,                \* per turn: "none" | "open" | "closed"
    source,             \* per turn: "none" | "created" | "connected" | "disconnected"
    processor,          \* per turn: "none" | "created" | "connected" | "disconnected"
    onaudioprocess,     \* per turn: the capture callback is assigned
    session,            \* per turn: "none" | "connecting" | "open" | "failed" | "errored" | "closed"
    sessionPromise,     \* per turn: "none" | "pending" | "resolved" | "rejected"
    captured,           \* per turn: audio blocks captured (numbered 1..captured)
    deferred,           \* per turn: blocks whose send waits on sessionPromise
    sent,               \* per turn: blocks passed to sendRealtimeInput, in order
    alerts,             \* calls of alert()
    \* ---- observation (history) variables of the recording part
    stoppedEarly,       \* per turn: stopRecording ran before any block was captured
    audioLog,           \* the last encode/send: what the turn and session were then
    turnBase,           \* inputText before the fragments in `received`
    received,           \* fragments delivered by onmessage since turnBase
    \* ---- conversion and history (src/App.tsx 22-32)
    conversionState,    \* [isLoading, result, error, sources]
    history,            \* useState<HistoryItem[]>([]), newest first
    storage,            \* localStorage['suvarna-history']: [present, text]
    now,                \* the value Date.now() returns
    conv,               \* per handleConvert call: its closure and outcome
    nConv,              \* handleConvert calls that reached the request
    \* ---- mounting: the two history effects (src/App.tsx 43-56)
    mountPc,            \* "load" | "save" | "render" | "ready"
    passesLeft,         \* effect passes still to run (2 under StrictMode)
    queued,             \* setHistory values queued by the load effect
    \* ---- observation (history) variables of the history part
    initStored,         \* what storage held before the app mounted
    \* ---- the debounced preview (src/App.tsx 21, 59-69)
    previewTranslation, \* useState('')
    previewTimer,       \* the effect's timer: "pending" | "fired"
    preview,            \* per quickPreview call: its input and outcome
    nPreview,           \* quickPreview calls so far
    previewedInput,     \* observation: the input the preview on display is for
    \* ---- the chat panel (src/components/ChatBot.tsx 7-10)
    isOpen,             \* useState(false)
    input,              \* useState('')
    messages,           \* useState<ChatMessage[]>([])
    isLoading,          \* useState(false)
    chat,               \* per sendChatMessage call: its closure and outcome
    nChat,              \* sendChatMessage calls so far
    \* ---- createBlob (src/App.tsx 74-95)
    inputData,          \* the frame handed to createBlob
    pcmBlob,            \* what createBlob returned for it
    \* ---- observation of cleanupAudio
    releaseCalls        \* disconnect/stop/close calls made so far

recVars == <<isRecording, audioContextRef, streamRef, processorRef, sourceRef,
             nTurns, pc, stream, ctx, source, processor, onaudioprocess,
             session, sessionPromise, captured, deferred, sent, alerts,
             stoppedEarly, audioLog>>
textVars == <<inputText, turnBase, received>>
histVars == <<conversionState, history, storage, now, conv, nConv,
              mountPc, passesLeft, queued, initStored>>
previewVars == <<previewTranslation, preview, nPreview, previewedInput>>
chatVars == <<isOpen, input, messages, isLoading, chat, nChat>>
blobVars == <<inputData, pcmBlob>>
otherVars == <<previewVars, chatVars, blobVars, releaseCalls>>
vars == <<recVars, textVars, histVars, otherVars, previewTimer>>

\* ------------------------------------------------------------- helpers
RECURSIVE SumTo(_, _)
SumTo(f, n) == IF n = 0 THEN 0 ELSE f[n] + SumTo(f, n - 1)

RECURSIVE Flatten(_)
Flatten(ss) == IF ss = <<>> THEN <<>> ELSE Head(ss) \o Flatten(Tail(ss))

\* A turn has ended once a later turn exists or the recording flag is down:
\* startRecording raises the flag synchronously, and only stopRecording, the
\* catch block and the onerror/onclose callbacks lower it.
TurnEnded(t) == t < nTurns \/ ~isRecording

\* The preview effect (src/App.tsx 59-69) has the dependencies inputText and
\* conversionState.isLoading: a step that changes either clears the timer of
\* the previous render and sets a new one.
previewEffect ==
    previewTimer' = IF <<inputText', conversionState'.isLoading>>
                         # <<inputText, conversionState.isLoading>>
                      THEN "pending" ELSE previewTimer

NoAudio == [turn |-> 0, op |-> "none", sess |-> "none", ended |-> FALSE]

\* ------------------------------------------------ text, numbers, JSON
\* String.prototype.trim on a text whose only whitespace is " ".
RECURSIVE TrimLeft(_)
TrimLeft(s) == IF s # <<>> /\ Head(s) = " " THEN TrimLeft(Tail(s)) ELSE s

RECURSIVE TrimRight(_)
TrimRight(s) ==
    IF s # <<>> /\ s[Len(s)] = " " THEN TrimRight(SubSeq(s, 1, Len(s) - 1)) ELSE s

Trim(s) == TrimRight(TrimLeft(s))

\* Number.prototype.toString and its inverse, in decimal.
Digits == <<"0", "1", "2", "3", "4", "5", "6", "7", "8", "9">>

RECURSIVE NumToString(_)
NumToString(n) ==
    IF n < 10 THEN <<Digits[n + 1]>>
    ELSE NumToString(n \div 10) \o <<Digits[(n % 10) + 1]>>

DigitValue(d) == (CHOOSE i \in 1..10 : Digits[i] = d) - 1

RECURSIVE StringToNum(_)
StringToNum(s) ==
    IF Len(s) = 1 THEN DigitValue(s[1])
    ELSE 10 * StringToNum(SubSeq(s, 1, Len(s) - 1)) + DigitValue(s[Len(s)])

\* A HistoryItem (part_000 33-38): id is a string, timestamp a number; the
\* GoldenResult is kept opaque.
Results == {"r1", "r2"}

HistoryItem(id, originalInput, result, timestamp) ==
    [id |-> id, originalInput |-> originalInput, result |-> result,
     timestamp |-> timestamp]

\* JSON text is a sequence of tokens, each a sequence of characters headed by
\* its kind: "[" "]" array brackets, "{" "}" object brackets, "s" string,
\* "n" number, "o" the result object.
ItemTokens(item) ==
    << <<"{">>,
       <<"s">> \o item.id,
       <<"s">> \o item.originalInput,
       <<"o", item.result>>,
       <<"n">> \o NumToString(item.timestamp),
       <<"}">> >>

RECURSIVE ItemsTokens(_)
ItemsTokens(h) ==
    IF h = <<>> THEN <<>> ELSE ItemTokens(Head(h)) \o ItemsTokens(Tail(h))

\* JSON.stringify(history).
JSONStringify(h) == << <<"[">> >> \o ItemsTokens(h) \o << <<"]">> >>

WellFormedItem(toks) ==
    /\ toks[1] = <<"{">> /\ toks[6] = <<"}">>
    /\ Head(toks[2]) = "s" /\ Len(toks[2]) >= 2
    /\ Head(toks[3]) = "s"
    /\ Head(toks[4]) = "o" /\ Len(toks[4]) = 2
    /\ Head(toks[5]) = "n" /\ Len(toks[5]) >= 2

RECURSIVE ParseItems(_)
ParseItems(text) ==
    IF text = <<>> THEN [ok |-> TRUE, items |-> <<>>]
    ELSE IF Len(text) < 6 \/ ~WellFormedItem(SubSeq(text, 1, 6))
    THEN [ok |-> FALSE, items |-> <<>>]
    ELSE LET rest == ParseItems(SubSeq(text, 7, Len(text)))
             item == HistoryItem(Tail(text[2]), Tail(text[3]), text[4][2],
                                 StringToNum(Tail(text[5])))
         IN  [ok |-> rest.ok,
              items |-> IF rest.ok THEN <<item>> \o rest.items ELSE <<>>]

\* JSON.parse(text): the items of the array, or a SyntaxError.
JSONParse(text) ==
    IF Len(text) < 2 \/ text[1] # <<"[">> \/ text[Len(text)] # <<"]">>
    THEN [ok |-> FALSE, items |-> <<>>]
    ELSE ParseItems(SubSeq(text, 2, Len(text) - 1))

\* localStorage.getItem: null when the key is absent.
NoEntry == [present |-> FALSE, text |-> <<>>]
Entry(text) == [present |-> TRUE, text |-> text]

\* What the key may hold when the app mounts: nothing, collections written
\* by an earlier run, or text that is not JSON.
StoredItem1 == HistoryItem(NumToString(0), <<"a">>, "r1", 0)
StoredItem2 == HistoryItem(NumToString(1), <<"b", " ">>, "r2", 1)
StoredCollections == {<<>>, <<StoredItem1>>, <<StoredItem2, StoredItem1>>}
CorruptText == << <<"[">>, <<"{">> >>
StoredChoices ==
    {NoEntry, Entry(CorruptText)} \cup {Entry(JSONStringify(h)) : h \in StoredCollections}

\* Date.now() when the app mounts: later than every stored timestamp.
FirstNow == StoredItem2.timestamp + 1

InitialConversionState ==
    [isLoading |-> FALSE, result |-> "null", error |-> "null", sources |-> <<>>]

NoRequest ==
[status |-> "none", input |-> <<>>, editedInFlight |-> FALSE]

\* ---------------------------------------------------------------- Init
InitRecording ==
    /\ inputText = <<>>
    /\ isRecording = FALSE
    /\ audioContextRef = 0 /\ streamRef = 0 /\ processorRef = 0 /\ sourceRef = 0
    /\ nTurns = 0
    /\ pc = [t \in Turns |-> "none"]
    /\ stream = [t \in Turns |-> "none"]
    /\ ctx = [t \in Turns |-> "none"]
    /\ source = [t \in Turns |-> "none"]
    /\ processor = [t \in Turns |-> "none"]
    /\ onaudioprocess = [t \in Turns |-> FALSE]
    /\ session = [t \in Turns |-> "none"]
    /\ sessionPromise = [t \in Turns |-> "none"]
    /\ captured = [t \in Turns |-> 0]
    /\ deferred = [t \in Turns |-> <<>>]
    /\ sent = [t \in Turns |-> <<>>]
    /\ alerts = 0
    /\ stoppedEarly = [t \in Turns |-> FALSE]
    /\ audioLog = NoAudio
    /\ turnBase = <<>>
    /\ received = <<>>

InitConversion ==
    /\ conversionState = InitialConversionState
    /\ now = FirstNow
    /\ conv = [r \in 1..MaxConv |-> NoRequest]
    /\ nConv = 0
    /\ queued = <<>>

NoPreview == [status |-> "none", input |-> <<>>]
NoChat == [status |-> "none", text |-> <<>>, history |-> <<>>]
NoBlob == [data |-> <<>>, mimeType |-> "none"]

\* The preview, the chat panel (closed, empty) and the audio encoder before
\* their first use. The preview effect has set its first timer.
InitOther ==
    /\ previewTranslation = ""
    /\ previewTimer = "pending"
    /\ preview = [r \in 1..MaxPreview |-> NoPreview]
    /\ nPreview = 0
    /\ previewedInput = <<>>
    /\ isOpen = FALSE
    /\ input = <<>>
    /\ messages = <<>>
    /\ isLoading = FALSE
    /\ chat = [r \in 1..MaxChat |-> NoChat]
    /\ nChat = 0
    /\ inputData = <<>>
    /\ pcmBlob = NoBlob
    /\ releaseCalls = 0

\* The app is mounted and the key was absent before it mounted: the save
\* effect has written the empty collection.
Init ==
    /\ InitRecording
    /\ InitConversion
    /\ InitOther
    /\ history = <<>>
    /\ initStored = NoEntry
    /\ storage = Entry(JSONStringify(<<>>))
    /\ mountPc = "ready"
    /\ passesLeft = 0

\* The app is mounted and has loaded a stored collection.
InitLoaded ==
    /\ InitRecording
    /\ InitConversion
    /\ InitOther
    /\ history \in StoredCollections
    /\ storage = Entry(JSONStringify(history))
    /\ initStored = storage
    /\ mountPc = "ready"
    /\ passesLeft = 0

\* The first render is committed and the effects are about to run, once, or
\* twice when the root is wrapped in React.StrictMode (the entry file that
\* decides it is not part of the sources).
InitHistory ==
    /\ InitRecording
    /\ InitConversion
    /\ InitOther
    /\ history = <<>>
    /\ storage \in StoredChoices
    /\ initStored = storage
    /\ mountPc = "load"
    /\ passesLeft \in {1, 2}

\* ------------------------------------------------------- cleanupAudio
\* One release of cleanupAudio: the object the ref points to, if any, goes to
\* `released`.
Release(objs, ref, released) ==
    IF ref # 0 THEN [objs EXCEPT ![ref] = released] ELSE objs

\* A cleanupAudio that makes the release calls but leaves the refs set.
cleanupAudioKeepsRefs(p, s, st, c, pr, sr, str, cr) ==
    /\ processor' = Release(p, pr, "disconnected")
    /\ processorRef' = pr
    /\ source' = Release(s, sr, "disconnected")
    /\ sourceRef' = sr
    /\ stream' = Release(st, str, "stopped")
    /\ streamRef' = str
    /\ ctx' = Release(c, cr, "closed")
    /\ audioContextRef' = cr

\* cleanupAudio run on the given object states and refs (src/App.tsx 163-180):
\* each ref that is set has its object released and is cleared.
cleanupAudio(p, s, st, c, pr, sr, str, cr) ==
    /\ processor' = Release(p, pr, "disconnected")
    /\ processorRef' = 0
    /\ source' = Release(s, sr, "disconnected")
    /\ sourceRef' = 0
    /\ stream' = Release(st, str, "stopped")
    /\ streamRef' = 0
    /\ ctx' = Release(c, cr, "closed")
    /\ audioContextRef' = 0

cleanupNow ==
    cleanupAudio(processor, source, stream, ctx,
                 processorRef, sourceRef, streamRef, audioContextRef)

\* ------------------------------------------------------ startRecording
\* A startRecording that empties the input when the turn starts.
startRecordingClearsInput ==
    /\ nTurns < MaxTurns
    /\ nTurns' = nTurns + 1
    /\ isRecording' = TRUE
    /\ pc' = [pc EXCEPT ![nTurns + 1] = "awaitMedia"]
    /\ inputText' = <<>>
    /\ UNCHANGED <<audioContextRef, streamRef, processorRef, sourceRef, stream,
                   ctx, source, processor, onaudioprocess, session,
                   sessionPromise, captured, deferred, sent, alerts,
                   stoppedEarly, audioLog, turnBase, received, histVars,
                   otherVars, previewTimer>>

\* The synchronous head of startRecording, up to the await of getUserMedia
\* (src/App.tsx 97-102). Line 100 resets currentTranscriptionRef, which
\* nothing reads; the input is not touched.
startRecording ==
    /\ nTurns < MaxTurns
    /\ nTurns' = nTurns + 1
    /\ isRecording' = TRUE
    /\ pc' = [pc EXCEPT ![nTurns + 1] = "awaitMedia"]
    /\ UNCHANGED <<audioContextRef, streamRef, processorRef, sourceRef, stream,
                   ctx, source, processor, onaudioprocess, session,
                   sessionPromise, captured, deferred, sent, alerts,
                   stoppedEarly, audioLog, textVars, histVars, otherVars, previewTimer>>

\* stopRecording (src/App.tsx 182-188): lowers the flag and cleans up; the
\* session is neither stored nor closed.
stopRecording ==
    /\ isRecording' = FALSE
    /\ cleanupNow
    /\ stoppedEarly' = IF nTurns > 0 /\ captured[nTurns] = 0
                       THEN [stoppedEarly EXCEPT ![nTurns] = TRUE]
                       ELSE stoppedEarly
    /\ UNCHANGED <<nTurns, pc, onaudioprocess, session, sessionPromise,
                   captured, deferred, sent, alerts, audioLog, textVars, histVars, otherVars, previewTimer>>

\* A catch block that alerts and lowers the flag but forgets cleanupAudio.
startRecordingCatchNoCleanup(p, s, st, c, pr, sr, str, cr) ==
    /\ alerts' = alerts + 1
    /\ isRecording' = FALSE
    /\ processor' = p /\ processorRef' = pr
    /\ source' = s /\ sourceRef' = sr
    /\ stream' = st /\ streamRef' = str
    /\ ctx' = c /\ audioContextRef' = cr

\* The catch block of startRecording (src/App.tsx 155-160), run on the object
\* states and refs the try block had reached when it threw.
startRecordingCatch(p, s, st, c, pr, sr, str, cr) ==
    /\ alerts' = alerts + 1
    /\ isRecording' = FALSE
    /\ cleanupAudio(p, s, st, c, pr, sr, str, cr)

\* getUserMedia rejects (permission denied, no device): the catch block runs
\* with nothing acquired by this turn.
getUserMediaRejected(t) ==
    /\ pc[t] = "awaitMedia"
    /\ pc' = [pc EXCEPT ![t] = "failed"]
    /\ startRecordingCatch(processor, source, stream, ctx,
                           processorRef, sourceRef, streamRef, audioContextRef)
    /\ UNCHANGED <<nTurns, onaudioprocess, session, sessionPromise, captured,
                   deferred, sent, stoppedEarly, audioLog, textVars, histVars, otherVars, previewTimer>>

\* The statements of the try block after the await, numbered in order:
\*   1 streamRef.current = stream                         (103)
\*   2 new AudioContext, audioContextRef.current = ..     (105-106)
\*   3 createMediaStreamSource, sourceRef.current = ..    (108-109)
\*   4 createScriptProcessor, processorRef.current = ..   (112-113)
\*   5 connectToLiveSession(callbacks)                    (115-141)
\*   6 processor.onaudioprocess = ..                      (143-150)
\*   7 source.connect(processor)                          (152)
\*   8 processor.connect(audioContext.destination)        (153)
\* A statement that calls into the browser may throw; connectToLiveSession is
\* an async function (part_000 150-167) and reports failure through its
\* promise, and the two assignments do not throw. throwAt = 0: none throws.
ThrowPoints == {0, 2, 3, 4, 7, 8}

Ran(k, throwAt) == throwAt = 0 \/ k < throwAt

\* The continuation of startRecording after getUserMedia resolves
\* (src/App.tsx 103-160). It runs to its end without another await, so it is
\* one step.
getUserMediaResolved(t, throwAt) ==
    LET st1  == [stream EXCEPT ![t] = "live"]
        c1   == IF Ran(2, throwAt) THEN [ctx EXCEPT ![t] = "open"] ELSE ctx
        cr1  == IF Ran(2, throwAt) THEN t ELSE audioContextRef
        s1   == IF Ran(7, throwAt) THEN [source EXCEPT ![t] = "connected"]
                ELSE IF Ran(3, throwAt) THEN [source EXCEPT ![t] = "created"]
                ELSE source
        sr1  == IF Ran(3, throwAt) THEN t ELSE sourceRef
        p1   == IF Ran(8, throwAt) THEN [processor EXCEPT ![t] = "connected"]
                ELSE IF Ran(4, throwAt) THEN [processor EXCEPT ![t] = "created"]
                ELSE processor
        pr1  == IF Ran(4, throwAt) THEN t ELSE processorRef
    IN  /\ pc[t] = "awaitMedia"
        /\ session' = IF Ran(5, throwAt)
                      THEN [session EXCEPT ![t] = "connecting"] ELSE session
        /\ sessionPromise' = IF Ran(5, throwAt)
                             THEN [sessionPromise EXCEPT ![t] = "pending"]
                             ELSE sessionPromise
        /\ onaudioprocess' = IF Ran(6, throwAt)
                             THEN [onaudioprocess EXCEPT ![t] = TRUE]
                             ELSE onaudioprocess
        /\ IF throwAt = 0
           THEN /\ pc' = [pc EXCEPT ![t] = "wired"]
                /\ stream' = st1 /\ streamRef' = t
                /\ ctx' = c1 /\ audioContextRef' = cr1
                /\ source' = s1 /\ sourceRef' = sr1
                /\ processor' = p1 /\ processorRef' = pr1
                /\ UNCHANGED <<isRecording, alerts>>
           ELSE /\ pc' = [pc EXCEPT ![t] = "failed"]
                /\ startRecordingCatch(p1, s1, st1, c1, pr1, sr1, t, cr1)
        /\ UNCHANGED <<nTurns, captured, deferred, sent, stoppedEarly,
                       audioLog, textVars, histVars, otherVars, previewTimer>>

\* ---------------------------------------------------- session callbacks
\* A resolution that forgets the sends chained while the promise was pending.
RunDeferredDrop(sentSoFar, waiting) == sentSoFar

\* The then-callbacks chained on a promise (src/App.tsx 147-149) run in the
\* order in which they were chained once it resolves.
RunDeferred(sentSoFar, waiting) == sentSoFar \o waiting

\* The connection is established: onopen runs (it only logs) and
\* sessionPromise resolves, so the sends deferred on it run, in order.
onopen(t) ==
    /\ session[t] = "connecting"
    /\ session' = [session EXCEPT ![t] = "open"]
    /\ sessionPromise' = [sessionPromise EXCEPT ![t] = "resolved"]
    /\ sent' = [sent EXCEPT ![t] = RunDeferred(sent[t], deferred[t])]
    /\ deferred' = [deferred EXCEPT ![t] = <<>>]
    /\ audioLog' = IF deferred[t] # <<>>
                   THEN [turn |-> t, op |-> "send", sess |-> "open",
                         ended |-> TurnEnded(t)]
                   ELSE audioLog
    /\ UNCHANGED <<isRecording, audioContextRef, streamRef, processorRef,
                   sourceRef, nTurns, pc, stream, ctx, source, processor,
                   onaudioprocess, captured, alerts, stoppedEarly, textVars, histVars, otherVars, previewTimer>>

\* A session that fails or closes before it opened never resolves its
\* promise: the sends deferred on it are not executed.
Settle(prom) == IF prom = "pending" THEN "rejected" ELSE prom

\* connectToLiveSession is an async function (part_000 150-167): a connection
\* that cannot be set up may reject its promise without any callback. The
\* promise is not awaited by startRecording (src/App.tsx 115); only the sends
\* chained on it see the rejection, and they log it (149).
connectRejected(t) ==
    /\ session[t] = "connecting"
    /\ session' = [session EXCEPT ![t] = "failed"]
    /\ sessionPromise' = [sessionPromise EXCEPT ![t] = "rejected"]
    /\ deferred' = [deferred EXCEPT ![t] = <<>>]
    /\ UNCHANGED <<isRecording, audioContextRef, streamRef, processorRef,
                   sourceRef, nTurns, pc, stream, ctx, source, processor,
                   onaudioprocess, captured, sent, alerts, stoppedEarly,
                   audioLog, textVars, histVars, otherVars, previewTimer>>

\* onerror (src/App.tsx 131-135).
onerror(t) ==
    /\ session[t] \in {"connecting", "open"}
    /\ session' = [session EXCEPT ![t] = "errored"]
    /\ sessionPromise' = [sessionPromise EXCEPT ![t] = Settle(sessionPromise[t])]
    /\ deferred' = [deferred EXCEPT ![t] = <<>>]
    /\ isRecording' = FALSE
    /\ cleanupNow
    /\ UNCHANGED <<nTurns, pc, onaudioprocess, captured, sent, alerts,
                   stoppedEarly, audioLog, textVars, histVars, otherVars, previewTimer>>

\* An onclose that lowers the flag but forgets cleanupAudio.
oncloseNoCleanup(t) ==
    /\ session[t] \in {"connecting", "open", "errored"}
    /\ session' = [session EXCEPT ![t] = "closed"]
    /\ sessionPromise' = [sessionPromise EXCEPT ![t] = Settle(sessionPromise[t])]
    /\ deferred' = [deferred EXCEPT ![t] = <<>>]
    /\ isRecording' = FALSE
    /\ UNCHANGED <<audioContextRef, streamRef, processorRef, sourceRef, stream,
                   ctx, source, processor>>
    /\ UNCHANGED <<nTurns, pc, onaudioprocess, captured, sent, alerts,
                   stoppedEarly, audioLog, textVars, histVars, otherVars, previewTimer>>

\* onclose (src/App.tsx 136-140).
onclose(t) ==
    /\ session[t] \in {"connecting", "open", "errored"}
    /\ session' = [session EXCEPT ![t] = "closed"]
    /\ sessionPromise' = [sessionPromise EXCEPT ![t] = Settle(sessionPromise[t])]
    /\ deferred' = [deferred EXCEPT ![t] = <<>>]
    /\ isRecording' = FALSE
    /\ cleanupNow
    /\ UNCHANGED <<nTurns, pc, onaudioprocess, captured, sent, alerts,
                   stoppedEarly, audioLog, textVars, histVars, otherVars, previewTimer>>

\* onmessage (src/App.tsx 119-130): a message with transcription text appends
\* it to the input (a functional update); any other message changes nothing.
\* An update that sets the input to the fragment instead of appending it.
AppendFragmentReplace(prev, text) == text

AppendFragment(prev, text) == prev \o text

onmessage(t, text) ==
    /\ session[t] = "open"
    /\ Len(received) < MaxMsgs
    /\ inputText' = IF text # NoText THEN AppendFragment(inputText, text)
                    ELSE inputText
    /\ received' = Append(received, text)
    /\ UNCHANGED <<otherVars, recVars, turnBase, histVars>>
    /\ previewEffect

\* -------------------------------------------------- the capture callback
\* processor.onaudioprocess (src/App.tsx 143-150): the block is encoded
\* (createBlob) and its send is chained on sessionPromise: it runs at once
\* when the promise has resolved, waits while it is pending, and goes to the
\* .catch when it was rejected. The node calls back while it is connected to
\* the destination of a running context.
audioprocess(t) ==
    /\ onaudioprocess[t]
    /\ processor[t] = "connected"
    /\ ctx[t] = "open"
    /\ SumTo(captured, MaxTurns) < MaxBlocks
    /\ captured' = [captured EXCEPT ![t] = captured[t] + 1]
    /\ LET blk == captured[t] + 1
           log(op) == [turn |-> t, op |-> op, sess |-> session[t],
                       ended |-> TurnEnded(t)]
       IN  CASE sessionPromise[t] = "resolved" ->
                  /\ sent' = [sent EXCEPT ![t] = Append(sent[t], blk)]
                  /\ audioLog' = log("send")
                  /\ UNCHANGED deferred
             [] sessionPromise[t] = "pending" ->
                  /\ deferred' = [deferred EXCEPT ![t] = Append(deferred[t], blk)]
                  /\ audioLog' = log("encode")
                  /\ UNCHANGED sent
             [] OTHER ->
                  /\ audioLog' = log("encode")
                  /\ UNCHANGED <<sent, deferred>>
    /\ UNCHANGED <<isRecording, audioContextRef, streamRef, processorRef,
                   sourceRef, nTurns, pc, stream, ctx, source, processor,
                   onaudioprocess, session, sessionPromise, alerts,
                   stoppedEarly, textVars, histVars, otherVars, previewTimer>>

\* handleMicClick (src/App.tsx 190-196).
handleMicClick ==
    IF isRecording THEN stopRecording ELSE startRecording

\* The textarea's onChange (src/App.tsx 317): the user replaces the input.
TypedTexts == {<<>>, <<" ">>, <<"b">>}

onChange(txt) ==
    /\ inputText' = txt
    /\ turnBase' = txt
    /\ received' = <<>>
    /\ UNCHANGED <<otherVars, recVars, histVars>>
    /\ previewEffect

\* ============================================= history and conversion
\* The [history] effect (src/App.tsx 54-56).
SavedText(h) == JSONStringify(h)

\* A history update after mounting: the state changes, the component renders
\* again and the [history] effect rewrites the key in full.
setHistory(h) ==
    /\ history' = h
    /\ storage' = Entry(SavedText(h))

\* The load effect (src/App.tsx 43-52): a stored text that parses is queued
\* as the next history; a text that does not parse is logged and dropped.
LoadEffect ==
    /\ mountPc = "load"
    /\ mountPc' = "save"
    /\ queued' = IF storage.present /\ storage.text # <<>>
                    /\ JSONParse(storage.text).ok
                 THEN Append(queued, JSONParse(storage.text).items)
                 ELSE queued
    /\ UNCHANGED <<otherVars, previewTimer, recVars, textVars, conversionState, history,
                   storage, now, conv, nConv, passesLeft, initStored>>

\* The save effect of the first commit: it sees the history of that render,
\* which no queued update has reached yet. Under StrictMode both effects then
\* run a second time before the queued updates are rendered.
SaveEffect ==
    /\ mountPc = "save"
    /\ storage' = Entry(SavedText(history))
    /\ passesLeft' = passesLeft - 1
    /\ mountPc' = IF passesLeft > 1 THEN "load" ELSE "render"
    /\ UNCHANGED <<otherVars, previewTimer, recVars, textVars, conversionState, history,
                   now, conv, nConv, queued, initStored>>

\* The queued setHistory calls are applied in order (each replaces the state,
\* so the last one stands), and the [history] effect saves the new state.
Render ==
    /\ mountPc = "render"
    /\ mountPc' = "ready"
    /\ queued' = <<>>
    /\ IF queued = <<>> THEN UNCHANGED <<history, storage>>
       ELSE setHistory(queued[Len(queued)])
    /\ UNCHANGED <<otherVars, previewTimer, recVars, textVars, conversionState, now, conv,
                   nConv, passesLeft, initStored>>

\* addToHistory (src/App.tsx 198-206): Date.now() is read twice, first for
\* the id (idNow) and then for the timestamp (tsNow); the clock never runs
\* backwards.
addToHistory(originalInput, result, idNow, tsNow) ==
    /\ setHistory(<<HistoryItem(NumToString(idNow), originalInput, result, tsNow)>>
                  \o history)
    /\ now' = tsNow

\* handleSelectHistoryItem (src/App.tsx 208-217).
handleSelectHistoryItem(i) ==
    /\ mountPc = "ready"
    /\ i \in 1..Len(history)
    /\ inputText' = history[i].originalInput
    /\ turnBase' = history[i].originalInput
    /\ received' = <<>>
    /\ conversionState' = [isLoading |-> FALSE, result |-> history[i].result,
                           sources |-> <<>>, error |-> "null"]
    /\ UNCHANGED <<otherVars, recVars, history, storage, now, conv, nConv,
                   mountPc, passesLeft, queued, initStored>>
    /\ previewEffect

\* A filter that keeps the entry instead of dropping it (=== for !==).
FilterOnlyId(h, id) == SelectSeq(h, LAMBDA item : item.id = id)

\* prev.filter(item => item.id !== id) (src/App.tsx 220).
FilterOutId(h, id) == SelectSeq(h, LAMBDA item : item.id # id)

\* handleDeleteHistoryItem (src/App.tsx 219-221).
handleDeleteHistoryItem(id) ==
    /\ mountPc = "ready"
    /\ setHistory(FilterOutId(history, id))
    /\ UNCHANGED <<otherVars, previewTimer, recVars, textVars, conversionState, now, conv,
                   nConv, mountPc, passesLeft, queued, initStored>>

\* ---------------------------------------------------- generateGoldenPrompt
\* JavaScript's a || b on strings, with "undefined" and "null" for the two
\* empty values.
Truthy(x) == x \notin {"", "undefined", "null"}
OrElse(a, b) == IF Truthy(a) THEN a ELSE b

\* What the hosted model may do with a request:
\*   "reject"   generateContent rejects with an Error carrying `message`
\*   "rejectNonError"  it rejects with a value that has no properties
\*   "empty"    the response has no text
\*   "badJSON"  the text does not parse
\*   "nullJSON" the text parses to null
\*   "json"     the text parses to the GoldenResult `data`
Outcomes ==
    {[kind |-> "reject", message |-> m, data |-> "null", sources |-> <<>>] :
        m \in {"", "quota exceeded"}}
    \cup {[kind |-> k, message |-> "", data |-> "null", sources |-> <<>>] :
        k \in {"rejectNonError", "empty", "badJSON", "nullJSON"}}
    \cup {[kind |-> "json", message |-> "", data |-> "r1", sources |-> <<>>],
          [kind |-> "json", message |-> "", data |-> "r2", sources |-> <<"web1">>]}

\* generateGoldenPrompt (part_000 74-125): what it returns, or that it
\* rejects (reading .message of a thrown value without properties throws
\* inside the catch block).
generateGoldenPrompt(o) ==
    LET thrown == CASE o.kind = "reject" -> o.message
                    [] o.kind = "empty" -> "No response from Gemini"
                    [] o.kind = "badJSON" -> "Failed to parse Golden Prompt."
                    [] OTHER -> "undefined"
    IN  CASE o.kind = "rejectNonError" ->
               [rejects |-> TRUE, data |-> "null", sources |-> <<>>,
                error |-> "undefined"]
          [] o.kind \in {"reject", "empty", "badJSON"} ->
               [rejects |-> FALSE, data |-> "null", sources |-> <<>>,
                error |-> OrElse(thrown, "An unexpected error occurred.")]
          [] o.kind = "nullJSON" ->
               [rejects |-> FALSE, data |-> "null", sources |-> <<>>,
                error |-> "undefined"]
          [] OTHER ->
               [rejects |-> FALSE, data |-> o.data, sources |-> o.sources,
                error |-> "undefined"]

\* ------------------------------------------------------------ handleConvert
\* handleConvert up to its await (src/App.tsx 223-229). The button is
\* disabled while a request is loading, the input is empty or a recording
\* runs (374); a blank input returns at once.
handleConvert ==
    /\ mountPc = "ready"
    /\ ~conversionState.isLoading /\ inputText # <<>> /\ ~isRecording
    /\ IF Trim(inputText) = <<>>
       THEN UNCHANGED <<conversionState, conv, nConv>>
       ELSE /\ nConv < MaxConv
            /\ nConv' = nConv + 1
            /\ conversionState' = [conversionState EXCEPT
                                     !.isLoading = TRUE, !.error = "null"]
            /\ conv' = [conv EXCEPT ![nConv + 1] =
                          [status |-> "inflight", input |-> inputText,
                           editedInFlight |-> FALSE]]
    /\ UNCHANGED <<otherVars, recVars, textVars, history, storage, now,
                   mountPc, passesLeft, queued, initStored>>
    /\ previewEffect

\* The request counts as failed when the service threw, reported an error or
\* returned no data.
RequestFailed(res) == res.rejects \/ Truthy(res.error) \/ res.data = "null"

\* A test that forgets `|| !data`.
ErrorOnly(res) == Truthy(res.error)

\* `error || !data` (src/App.tsx 231).
ErrorOrNoData(res) == Truthy(res.error) \/ res.data = "null"

\* The input as it is when the request settles, not as it was submitted.
LiveInputText(r) == inputText

\* The inputText of the render whose handleConvert made request r: the value
\* passed to generateGoldenPrompt (229) and to addToHistory (247).
ClosureInputText(r) == conv[r].input

\* handleConvert after its await (src/App.tsx 229-255), for request r
\* settling with outcome o.
handleConvertSettled(r, o) ==
    LET res == generateGoldenPrompt(o)
        settled(st) == [conv EXCEPT ![r].status = st,
                          ![r].editedInFlight = (inputText # conv[r].input)]
    IN  /\ conv[r].status = "inflight"
        /\ conv' = settled(IF RequestFailed(res) THEN "failed" ELSE "ok")
        /\ IF res.rejects
           THEN /\ conversionState' = [conversionState EXCEPT
                      !.isLoading = FALSE,
                      !.error = "Unexpected error occurred."]
                /\ UNCHANGED <<history, storage, now>>
           ELSE IF ErrorOrNoData(res)
           THEN /\ conversionState' = [conversionState EXCEPT
                      !.isLoading = FALSE,
                      !.error = OrElse(res.error, "Failed to generate.")]
                /\ UNCHANGED <<history, storage, now>>
           ELSE /\ conversionState' = [isLoading |-> FALSE, result |-> res.data,
                                       sources |-> res.sources, error |-> "null"]
                /\ \E idNow \in now..MaxClock, tsNow \in now..MaxClock :
                      /\ idNow <= tsNow /\ tsNow <= idNow + 1
                      /\ addToHistory(ClosureInputText(r), res.data,
                                      idNow, tsNow)
        /\ UNCHANGED <<otherVars, recVars, textVars, nConv, mountPc,
                       passesLeft, queued, initStored>>
        /\ previewEffect

\* The ids a delete may be asked for: those Date.now() can have produced.
IdSpace == {NumToString(n) : n \in 0..MaxClock}

\* Conversion and history in the mounted app.
NextHistory ==
    \/ \E txt \in TypedTexts : onChange(txt)
    \/ handleConvert
    \/ \E r \in 1..MaxConv, o \in Outcomes : handleConvertSettled(r, o)
    \/ \E i \in 1..(2 + MaxConv) : handleSelectHistoryItem(i)
    \/ \E id \in IdSpace : handleDeleteHistoryItem(id)

SpecHistory == InitLoaded /\ [][NextHistory]_vars

\* The same from the first commit on: the two effects, then the app in use.
NextMount ==
    \/ LoadEffect
    \/ SaveEffect
    \/ Render
    \/ mountPc = "ready" /\ NextHistory

SpecMount == InitHistory /\ [][NextMount]_vars

\* The recording controller.
Next ==
    \/ handleMicClick
    \/ \E t \in Turns : getUserMediaRejected(t)
    \/ \E t \in Turns, k \in ThrowPoints : getUserMediaResolved(t, k)
    \/ \E t \in Turns : onopen(t)
    \/ \E t \in Turns : connectRejected(t)
    \/ \E t \in Turns : onerror(t)
    \/ \E t \in Turns : onclose(t)
    \/ \E t \in Turns : audioprocess(t)

Spec == Init /\ [][Next]_vars

\* The transcript path: recording turns whose setup succeeds, their sessions'
\* messages, and the user's edits of the input. onmessage and onChange write
\* inputText only, and no action of Next reads it.
NextTranscript ==
    \/ handleMicClick
    \/ \E t \in Turns : getUserMediaResolved(t, 0)
    \/ \E t \in Turns : onopen(t)
    \/ \E t \in Turns : onclose(t)
    \/ \E t \in Turns, text \in Fragments : onmessage(t, text)
    \/ \E txt \in TypedTexts : onChange(txt)

SpecTranscript == Init /\ [][NextTranscript]_vars

\* ========================================================== the preview
\* The debounced preview (src/App.tsx 59-69): 500 ms after the last change of
\* inputText or conversionState.isLoading the timer of that render fires.
PreviewMinLength == 5

\* What the user may type when the preview is looked at: texts on both sides
\* of the length threshold.
PreviewTexts ==
    {<<>>, <<"b">>, <<"n", "a", "m", "a", "s", "t">>,
     <<"n", "a", "m", "a", "s", "t", "e">>}

\* The timer callback up to its await (src/App.tsx 60-62, 64-66). The timers
\* of earlier renders were cleared, so the inputText and isLoading it closes
\* over are the current ones.
previewTimerFired ==
    /\ previewTimer = "pending"
    /\ previewTimer' = "fired"
    /\ IF Len(inputText) > PreviewMinLength /\ ~conversionState.isLoading
       THEN /\ nPreview < MaxPreview
            /\ nPreview' = nPreview + 1
            /\ preview' = [preview EXCEPT ![nPreview + 1] =
                             [status |-> "inflight", input |-> inputText]]
            /\ UNCHANGED <<previewTranslation, previewedInput>>
       ELSE /\ previewTranslation' = IF Len(inputText) = 0 THEN ""
                                     ELSE previewTranslation
            /\ previewedInput' = IF Len(inputText) = 0 THEN <<>>
                                  ELSE previewedInput
            /\ UNCHANGED <<preview, nPreview>>
    /\ UNCHANGED <<chatVars, blobVars, releaseCalls, recVars, textVars, histVars>>

\* What the hosted model may do with a preview request: reject, or answer
\* with a text, with the empty text or with none.
PreviewOutcomes ==
    {[kind |-> "reject", text |-> "undefined"]}
    \cup {[kind |-> "text", text |-> t] : t \in {"undefined", "", "hello"}}

\* A quickPreview that hands the failure to its caller as text.
quickPreviewSurfaces(o) ==
    IF o.kind = "text" THEN OrElse(o.text, "") ELSE "error"

\* quickPreview (part_000 131-145): response.text || "", and "" from the
\* catch block.
quickPreview(o) ==
    IF o.kind = "text" THEN OrElse(o.text, "") ELSE ""

\* The timer callback after its await (src/App.tsx 62-63), for call r
\* settling with outcome o. Nothing cancels a call in flight.
quickPreviewSettled(r, o) ==
    /\ preview[r].status = "inflight"
    /\ preview' = [preview EXCEPT ![r].status =
                     IF o.kind = "reject" THEN "failed" ELSE "ok"]
    /\ previewTranslation' = quickPreview(o)
    /\ previewedInput' = preview[r].input
    /\ UNCHANGED <<nPreview, previewTimer, chatVars, blobVars, releaseCalls,
                   recVars, textVars, histVars>>

\* The preview next to the conversion whose loading flag and error it must
\* respect; the conversions looked at here are the rejected ones, which put
\* an error on display.
RejectedOutcomes == {o \in Outcomes : o.kind = "reject"}

NextPreview ==
    \/ \E txt \in PreviewTexts : onChange(txt)
    \/ previewTimerFired
    \/ \E r \in 1..MaxPreview, o \in PreviewOutcomes : quickPreviewSettled(r, o)
    \/ handleConvert
    \/ \E r \in 1..MaxConv, o \in RejectedOutcomes : handleConvertSettled(r, o)

SpecPreview == Init /\ [][NextPreview]_vars

\* ============================================================= the chat
\* The ChatBot component (src/components/ChatBot.tsx). A ChatMessage is kept
\* as its role and text; the id and the timestamp are only used as React keys.
ChatMessage(role, text) == [role |-> role, text |-> text]

\* What the user may type into the chat input.
ChatTexts == {<<>>, <<" ">>, <<"h", "i">>, <<"?">>}

\* The trigger button and the close button (ChatBot.tsx 63, 79).
setIsOpen(b) ==
    /\ isOpen # b
    /\ isOpen' = b
    /\ UNCHANGED <<input, messages, isLoading, chat, nChat, previewVars,
                   blobVars, releaseCalls, previewTimer, recVars, textVars,
                   histVars>>

\* The chat input's onChange (ChatBot.tsx 119).
setInput(txt) ==
    /\ isOpen
    /\ input' = txt
    /\ UNCHANGED <<isOpen, messages, isLoading, chat, nChat, previewVars,
                   blobVars, releaseCalls, previewTimer, recVars, textVars,
                   histVars>>

\* handleSend up to its await (ChatBot.tsx 21-42): a blank input or a request
\* in flight returns at once; otherwise the user's message is appended, the
\* input cleared and the request sent with the messages of this render.
handleSend ==
    /\ isOpen
    /\ IF Trim(input) = <<>> \/ isLoading
       THEN UNCHANGED <<input, messages, isLoading, chat, nChat>>
       ELSE /\ nChat < MaxChat
            /\ nChat' = nChat + 1
            /\ messages' = Append(messages, ChatMessage("user", input))
            /\ input' = <<>>
            /\ isLoading' = TRUE
            /\ chat' = [chat EXCEPT ![nChat + 1] =
                          [status |-> "inflight", text |-> input,
                           history |-> messages]]
    /\ UNCHANGED <<isOpen, previewVars, blobVars, releaseCalls, previewTimer,
                   recVars, textVars, histVars>>

\* What the hosted model may do with a chat request:
\*   "reject"          chats.create or sendMessage throws an Error
\*   "rejectNonError"  it throws a value without properties, and reading
\*                     error.message throws in the catch block
\*   "text"            the result carries `text` (NoText: no text at all)
ChatOutcomes ==
    {[kind |-> "reject", text |-> NoText],
     [kind |-> "rejectNonError", text |-> NoText],
     [kind |-> "text", text |-> NoText],
     [kind |-> "text", text |-> <<"o", "k">>]}

\* sendChatMessage (part_000 172-190): it returns result.text or rejects.
sendChatMessage(o) ==
    IF o.kind = "text" THEN [rejects |-> FALSE, text |-> o.text]
    ELSE [rejects |-> TRUE, text |-> NoText]

\* responseText || "I couldn't generate a response." (ChatBot.tsx 47).
ReplyText(text) ==
    IF text # NoText THEN text ELSE <<"I couldn't generate a response.">>

\* handleSend after its await (ChatBot.tsx 42-55), for request r settling with
\* outcome o: the reply is appended, or the failure is logged to the console;
\* the finally block lowers the loading flag.
handleSendSettled(r, o) ==
    LET res == sendChatMessage(o)
    IN  /\ chat[r].status = "inflight"
        /\ chat' = [chat EXCEPT ![r].status =
                      IF res.rejects THEN "failed" ELSE "ok"]
        /\ messages' = IF res.rejects THEN messages
                       ELSE Append(messages, ChatMessage("model", ReplyText(res.text)))
        /\ isLoading' = FALSE
        /\ UNCHANGED <<isOpen, input, nChat, previewVars, blobVars,
                       releaseCalls, previewTimer, recVars, textVars, histVars>>

NextChat ==
    \/ \E b \in BOOLEAN : setIsOpen(b)
    \/ \E txt \in ChatTexts : setInput(txt)
    \/ handleSend
    \/ \E r \in 1..MaxChat, o \in ChatOutcomes : handleSendSettled(r, o)

SpecChat == Init /\ [][NextChat]_vars

\* ============================================================ teardown
\* cleanupAudio looked at on its own: it is called with any of the four refs
\* set or null, and a release call may throw. The refs that are set point to
\* objects that are in use.
InitTeardown ==
    /\ InitConversion
    /\ InitOther
    /\ history = <<>>
    /\ initStored = NoEntry
    /\ storage = Entry(JSONStringify(<<>>))
    /\ mountPc = "ready"
    /\ passesLeft = 0
    /\ inputText = <<>> /\ turnBase = <<>> /\ received = <<>>
    /\ isRecording \in BOOLEAN
    /\ processorRef \in 0..MaxTurns /\ sourceRef \in 0..MaxTurns
    /\ streamRef \in 0..MaxTurns /\ audioContextRef \in 0..MaxTurns
    /\ nTurns = MaxTurns
    /\ pc = [t \in Turns |-> "wired"]
    /\ processor = [t \in Turns |-> IF processorRef = t THEN "connected" ELSE "none"]
    /\ source = [t \in Turns |-> IF sourceRef = t THEN "connected" ELSE "none"]
    /\ stream = [t \in Turns |-> IF streamRef = t THEN "live" ELSE "none"]
    /\ ctx = [t \in Turns |-> IF audioContextRef = t THEN "open" ELSE "none"]
    /\ onaudioprocess = [t \in Turns |-> processorRef = t]
    /\ session = [t \in Turns |-> "none"]
    /\ sessionPromise = [t \in Turns |-> "none"]
    /\ captured = [t \in Turns |-> 0]
    /\ deferred = [t \in Turns |-> <<>>]
    /\ sent = [t \in Turns |-> <<>>]
    /\ alerts = 0
    /\ stoppedEarly = [t \in Turns |-> FALSE]
    /\ audioLog = NoAudio

\* The release calls of cleanupAudio in order: 1 processor.disconnect (165),
\* 2 source.disconnect (169), 3 track.stop (173), 4 audioContext.close (177).
ReleaseSteps == 1..4

RefAt(k) ==
    CASE k = 1 -> processorRef [] k = 2 -> sourceRef
      [] k = 3 -> streamRef [] OTHER -> audioContextRef

\* The release calls a run makes when call number throwAt throws: those of
\* the refs that are set, up to and including the one that throws.
CallsMade(throwAt) ==
    Cardinality({k \in ReleaseSteps :
                    RefAt(k) # 0 /\ (throwAt = 0 \/ k <= throwAt)})

\* One call of cleanupAudio (src/App.tsx 163-180) in which release call
\* number throwAt throws (0: none does). There is no try around the calls:
\* the exception leaves the function, the ref of the throwing call is not
\* cleared and the later releases are not reached.
cleanupAudioCall(throwAt) ==
    /\ throwAt # 0 => RefAt(throwAt) # 0
    /\ releaseCalls + CallsMade(throwAt) <= MaxReleases
    /\ releaseCalls' = releaseCalls + CallsMade(throwAt)
    /\ IF throwAt = 0 THEN cleanupNow
       ELSE /\ processor' = IF Ran(1, throwAt)
                            THEN Release(processor, processorRef, "disconnected")
                            ELSE processor
            /\ processorRef' = IF Ran(1, throwAt) THEN 0 ELSE processorRef
            /\ source' = IF Ran(2, throwAt)
                         THEN Release(source, sourceRef, "disconnected")
                         ELSE source
            /\ sourceRef' = IF Ran(2, throwAt) THEN 0 ELSE sourceRef
            /\ stream' = IF Ran(3, throwAt)
                         THEN Release(stream, streamRef, "stopped") ELSE stream
            /\ streamRef' = IF Ran(3, throwAt) THEN 0 ELSE streamRef
            /\ UNCHANGED <<ctx, audioContextRef>>
    /\ UNCHANGED <<isRecording, nTurns, pc, onaudioprocess, session,
                   sessionPromise, captured, deferred, sent, alerts,
                   stoppedEarly, audioLog, textVars, histVars, previewVars,
                   chatVars, blobVars, previewTimer>>

NextTeardown == \E throwAt \in {0} \cup ReleaseSteps : cleanupAudioCall(throwAt)

SpecTeardown == InitTeardown /\ [][NextTeardown]_vars

\* ========================================================== createBlob
\* An audio sample is a number n / SampleScale, from below -1 to above 1, or
\* NaN (a Float32Array can hold it).
Sample(n) == [nan |-> FALSE, num |-> n]
NaNSample == [nan |-> TRUE, num |-> 0]
Samples ==
    {Sample(n) : n \in -(SampleScale + 2)..(SampleScale + 2)} \cup {NaNSample}

RECURSIVE SeqsUpTo(_, _)
SeqsUpTo(S, n) ==
    IF n = 0 THEN {<<>>}
    ELSE LET shorter == SeqsUpTo(S, n - 1)
         IN  shorter \cup {Append(q, x) : q \in shorter, x \in S}

\* The frames handed to createBlob.
Frames == SeqsUpTo(Samples, MaxSamples)

Int16Scale == 32767

\* A conversion that scales without clamping.
ClampNone(x) == x

\* Math.max(-1, Math.min(1, data[i])) (src/App.tsx 79); NaN stays NaN.
Clamp(x) ==
    IF x.nan THEN x
    ELSE Sample(IF x.num > SampleScale THEN SampleScale
                ELSE IF x.num < -SampleScale THEN -SampleScale ELSE x.num)

\* Division that truncates toward zero, as the conversion to an integer does.
TruncDiv(a, b) == IF a >= 0 THEN a \div b ELSE -((-a) \div b)

\* Storing a number into an Int16Array: NaN becomes 0, the fraction is
\* dropped and the integer is taken modulo 2^16 into -32768..32767.
ToInt16(k) ==
    LET m == k % 65536 IN IF m >= 32768 THEN m - 65536 ELSE m

\* int16[i] = clamp(data[i]) * 32767 (src/App.tsx 79).
EncodeSample(x) ==
    LET c == Clamp(x)
    IN  IF c.nan THEN 0
        ELSE ToInt16(TruncDiv(c.num * Int16Scale, SampleScale))

Int16Array(data) == [i \in 1..Len(data) |-> EncodeSample(data[i])]

\* A payload that keeps only the low byte of each sample.
Uint8ArrayLowOnly(int16) == [j \in 1..Len(int16) |-> (int16[j] % 65536) % 256]

\* new Uint8Array(int16.buffer) (src/App.tsx 81): the two bytes of each
\* element in the byte order of the platform, which is little-endian on every
\* platform the browsers run on: low byte first.
Uint8Array(int16) ==
    [j \in 1..(2 * Len(int16)) |->
        LET u == int16[(j + 1) \div 2] % 65536
        IN  IF j % 2 = 1 THEN u % 256 ELSE u \div 256]

\* The base64 alphabet of btoa and atob.
Base64Alphabet ==
    <<"A", "B", "C", "D", "E", "F", "G", "H", "I", "J", "K", "L", "M",
      "N", "O", "P", "Q", "R", "S", "T", "U", "V", "W", "X", "Y", "Z",
      "a", "b", "c", "d", "e", "f", "g", "h", "i", "j", "k", "l", "m",
      "n", "o", "p", "q", "r", "s", "t", "u", "v", "w", "x", "y", "z",
      "0", "1", "2", "3", "4", "5", "6", "7", "8", "9", "+", "/">>

Base64Char(v) == Base64Alphabet[v + 1]
Base64Value(c) == (CHOOSE i \in 1..64 : Base64Alphabet[i] = c) - 1

\* btoa on the binary string built from the bytes (src/App.tsx 84-89): every
\* character code is a byte, so btoa does not throw.
RECURSIVE btoa(_)
btoa(bytes) ==
    IF bytes = <<>> THEN <<>>
    ELSE IF Len(bytes) = 1
    THEN <<Base64Char(bytes[1] \div 4), Base64Char((bytes[1] % 4) * 16),
           "=", "=">>
    ELSE IF Len(bytes) = 2
    THEN <<Base64Char(bytes[1] \div 4),
           Base64Char((bytes[1] % 4) * 16 + bytes[2] \div 16),
           Base64Char((bytes[2] % 16) * 4), "=">>
    ELSE <<Base64Char(bytes[1] \div 4),
           Base64Char((bytes[1] % 4) * 16 + bytes[2] \div 16),
           Base64Char((bytes[2] % 16) * 4 + bytes[3] \div 64),
           Base64Char(bytes[3] % 64)>>
         \o btoa(SubSeq(bytes, 4, Len(bytes)))

\* atob: the bytes a base64 text stands for.
RECURSIVE atob(_)
atob(text) ==
    IF text = <<>> THEN <<>>
    ELSE LET a == Base64Value(text[1])
             b == Base64Value(text[2])
             first == a * 4 + b \div 16
         IN  IF text[3] = "=" THEN <<first>>
             ELSE LET c == Base64Value(text[3])
                      second == (b % 16) * 16 + c \div 4
                  IN  IF text[4] = "=" THEN <<first, second>>
                      ELSE <<first, second, (c % 4) * 64 + Base64Value(text[4])>>
                           \o atob(SubSeq(text, 5, Len(text)))

\* createBlob (src/App.tsx 74-95).
createBlob(data) ==
    [data |-> btoa(Uint8Array(Int16Array(data))),
     mimeType |-> "audio/pcm;rate=16000"]

\* createBlob looked at on its own: a frame arrives (src/App.tsx 144) and is
\* encoded (145).
InitBlob ==
    /\ InitRecording
    /\ InitConversion
    /\ history = <<>>
    /\ initStored = NoEntry
    /\ storage = Entry(JSONStringify(<<>>))
    /\ mountPc = "ready"
    /\ passesLeft = 0
    /\ previewTranslation = ""
    /\ previewTimer = "pending"
    /\ preview = [r \in 1..MaxPreview |-> NoPreview]
    /\ nPreview = 0
    /\ previewedInput = <<>>
    /\ isOpen = FALSE
    /\ input = <<>>
    /\ messages = <<>>
    /\ isLoading = FALSE
    /\ chat = [r \in 1..MaxChat |-> NoChat]
    /\ nChat = 0
    /\ releaseCalls = 0
    /\ inputData \in Frames
    /\ pcmBlob = NoBlob

encodeFrame ==
    /\ pcmBlob = NoBlob
    /\ pcmBlob' = createBlob(inputData)
    /\ UNCHANGED <<inputData, previewVars, chatVars, releaseCalls,
                   previewTimer, recVars, textVars, histVars>>

NextBlob == encodeFrame

SpecBlob == InitBlob /\ [][NextBlob]_vars

\* ====================================================== the busy flags
\* The three operations that raise a busy flag, side by side: recording turns
\* whose setup statements do not throw, conversions of one typed text, and
\* chat requests for one typed message.
NextIdle ==
    \/ handleMicClick
    \/ \E t \in Turns : getUserMediaRejected(t)
    \/ \E t \in Turns : getUserMediaResolved(t, 0)
    \/ \E t \in Turns : onopen(t)
    \/ \E t \in Turns : connectRejected(t)
    \/ \E t \in Turns : onerror(t)
    \/ \E t \in Turns : onclose(t)
    \/ onChange(<<"b">>)
    \/ handleConvert
    \/ \E r \in 1..MaxConv, o \in RejectedOutcomes : handleConvertSettled(r, o)
    \/ setIsOpen(TRUE)
    \/ setInput(<<"?">>)
    \/ handleSend
    \/ \E r \in 1..MaxChat, o \in ChatOutcomes : handleSendSettled(r, o)

\* The browser runs every continuation that is ready: a getUserMedia request,
\* a conversion request and a chat request settle, and the code after their
\* await runs. Nothing obliges the user to click or the remote session to
\* open, fail or close.
FairIdle ==
    /\ \A t \in Turns :
          WF_vars(getUserMediaRejected(t) \/ getUserMediaResolved(t, 0))
    /\ \A r \in 1..MaxConv :
          WF_vars(\E o \in RejectedOutcomes : handleConvertSettled(r, o))
    /\ \A r \in 1..MaxChat :
          WF_vars(\E o \in ChatOutcomes : handleSendSettled(r, o))

SpecIdle == Init /\ [][NextIdle]_vars /\ FairIdle

\* ================================================================ claims
\* What a turn holds.
HoldsStream(t) == stream[t] = "live"
HoldsContext(t) == ctx[t] = "open"
HoldsSource(t) == source[t] \in {"created", "connected"}
HoldsProcessor(t) == processor[t] \in {"created", "connected"}
HoldsSession(t) == session[t] = "open"
CaptureWired(t) == onaudioprocess[t] /\ processor[t] = "connected" /\ ctx[t] = "open"

HoldsNothing(t) ==
    /\ ~HoldsStream(t) /\ ~HoldsContext(t) /\ ~HoldsSource(t)
    /\ ~HoldsProcessor(t) /\ ~HoldsSession(t)

\* No asynchronous step of startRecording is pending: no getUserMedia request
\* and no session connection is in flight.
Settled(t) == pc[t] # "awaitMedia" /\ session[t] # "connecting"

\* C1: whenever isRecording is true exactly one microphone stream, one live
\* session and one audio-processing connection are held, and whenever it is
\* false all three are released. Stated for the states in which no
\* acquisition is in flight, the reading most favourable to the code.
C1_HeldIffRecording ==
    (\A t \in Turns : Settled(t)) =>
        LET n == IF isRecording THEN 1 ELSE 0
        IN  /\ Cardinality({t \in Turns : HoldsStream(t)}) = n
            /\ Cardinality({t \in Turns : HoldsSession(t)}) = n
            /\ Cardinality({t \in Turns : processor[t] = "connected"}) = n

\* C2: when stopRecording ran before any audio block of the turn was captured,
\* then once the turn's asynchronous steps have completed the turn holds
\* nothing: stream stopped, no node or context left, session closed or never
\* opened.
C2_StartStopLeavesNothing ==
    \A t \in Turns : (stoppedEarly[t] /\ Settled(t)) => HoldsNothing(t)

\* C3: at most one capture callback is wired and at most one live session is
\* open at any time.
C3_SingleTurnInFlight ==
    /\ Cardinality({t \in Turns : CaptureWired(t)}) <= 1
    /\ Cardinality({t \in Turns : HoldsSession(t)}) <= 1

\* C4: when getUserMedia rejects or a later setup statement throws, the step
\* that runs the catch block leaves isRecording false, has shown one alert,
\* and leaves every resource the turn had acquired released, with the four
\* refs cleared.
C4_FailedStartAbortsToIdle ==
    [][\A t \in Turns :
          (pc[t] = "awaitMedia" /\ pc'[t] = "failed") =>
              /\ isRecording' = FALSE
              /\ alerts' = alerts + 1
              /\ HoldsNothing(t)'
              /\ streamRef' = 0 /\ audioContextRef' = 0
              /\ sourceRef' = 0 /\ processorRef' = 0]_vars

\* C4 witness: a turn failed after it had acquired the stream, the context
\* and both nodes, and all of them are released.
C4_Witness ==
    \E t \in Turns :
        /\ pc[t] = "failed" /\ ~isRecording /\ alerts >= 1
        /\ stream[t] = "stopped" /\ ctx[t] = "closed"
        /\ source[t] = "disconnected" /\ processor[t] = "disconnected"

\* C5: no audio block is encoded or sent after its session has closed or
\* errored, or after its turn has been stopped.
C5_NoAudioAfterEnd ==
    audioLog.op # "none" =>
        /\ audioLog.sess \notin {"closed", "errored"}
        /\ ~audioLog.ended

\* C6: after any sequence of fragments delivered by onmessage the input equals
\* its prior content followed by the fragments in delivery order; messages
\* without text leave it unchanged.
C6_BufferIsConcatenation ==
    inputText = turnBase \o Flatten(received)

\* C6 witness: two different non-empty fragments were appended to non-empty
\* prior content.
C6_Witness ==
    /\ turnBase # <<>>
    /\ Len(received) >= 2
    /\ received[1] # NoText /\ received[2] # NoText
    /\ received[1] # received[2]

\* C7: the step in which a conversion request succeeds adds exactly one
\* history entry, in front, whose originalInput is the text that was
\* submitted with the request and whose result is the returned result,
\* whatever happened to the input and to the history in the meantime.
C7_SuccessAddsSubmittedInput ==
    [][\A r \in 1..MaxConv :
          (conv[r].status = "inflight" /\ conv'[r].status = "ok") =>
              /\ Len(history') = Len(history) + 1
              /\ Tail(history') = history
              /\ Head(history').originalInput = conv[r].input
              /\ conversionState'.result \in Results
              /\ Head(history').result = conversionState'.result]_vars

\* C7 witness: a request succeeded after the input had been edited while it
\* was in flight, and its entry carries the submitted text.
C7_Witness ==
    \E r \in 1..MaxConv :
        /\ conv[r].status = "ok" /\ conv[r].editedInFlight
        /\ history # <<>>
        /\ Head(history).originalInput = conv[r].input

\* C8: the step in which a conversion request fails (the service rejects,
\* reports an error or returns no data) leaves the history and the stored
\* collection unchanged and sets a non-empty error with isLoading false.
C8_FailureKeepsHistory ==
    [][\A r \in 1..MaxConv :
          (conv[r].status = "inflight" /\ conv'[r].status = "failed") =>
              /\ history' = history
              /\ storage' = storage
              /\ conversionState'.isLoading = FALSE
              /\ Truthy(conversionState'.error)]_vars

\* C8 witness: a request failed with entries in the history, and the error
\* is shown.
C8_Witness ==
    \E r \in 1..MaxConv :
        /\ conv[r].status = "failed"
        /\ history # <<>>
        /\ ~conversionState.isLoading
        /\ Truthy(conversionState.error)

\* C9: a delete by id removes every entry with that id and nothing else: the
\* entries with other ids stay, unmodified and in the same order; an id
\* that is not present leaves the collection as it was.
C9_DeleteRemovesOnlyThatId ==
    [][\A id \in IdSpace :
          handleDeleteHistoryItem(id) =>
              LET keep == {i \in 1..Len(history) : history[i].id # id}
              IN  /\ Len(history') = Cardinality(keep)
                  /\ \A i \in keep :
                        history'[Cardinality({k \in keep : k <= i})] = history[i]
                  /\ (keep = 1..Len(history)) => history' = history]_vars

\* C9 witness: with no entry added, a delete has removed an entry of the
\* loaded collection and left another.
C9_Witness ==
    /\ nConv = 0
    /\ Len(history) >= 1
    /\ Len(history) < Len(JSONParse(initStored.text).items)

\* C10: mounting the app over a stored collection yields that collection in
\* memory and leaves it stored, however many times the effects run; and in
\* the mounted app the stored collection is the in-memory one.
C10_PersistenceRoundTrip ==
    [][/\ (/\ mountPc = "render" /\ mountPc' = "ready"
           /\ initStored.present /\ JSONParse(initStored.text).ok) =>
              /\ history' = JSONParse(initStored.text).items
              /\ storage' = initStored
       /\ (mountPc' = "ready") =>
              /\ storage'.present
              /\ JSONParse(storage'.text) = [ok |-> TRUE, items |-> history']]_vars

\* C11: the step in which a chat request fails adds an error message to the
\* chat panel: what the user sees after the failure is more than the echoed
\* user message and a lowered loading flag.
C11_ChatFailureSurfaced ==
    [][\A r \in 1..MaxChat :
          (chat[r].status = "inflight" /\ chat'[r].status = "failed") =>
              /\ isLoading' = FALSE
              /\ Len(messages') > Len(messages)
              /\ messages'[Len(messages')].role # "user"]_vars

\* C12: the step in which a preview call fails sets the preview text to the
\* empty string and changes nothing else: not conversionState (its error in
\* particular), not the input, the history, the stored collection, the
\* recording flag or the chat.
C12_PreviewFailureSwallowed ==
    [][\A r \in 1..MaxPreview :
          (preview[r].status = "inflight" /\ preview'[r].status = "failed") =>
              /\ previewTranslation' = ""
              /\ UNCHANGED <<conversionState, inputText, history, storage,
                             isRecording, alerts, messages, isLoading>>]_vars

\* C12 witness: a preview call failed after an earlier one had delivered a
\* preview, while a conversion error was on display: the preview is empty and
\* the error still stands.
C12_Witness ==
    \E r, r2 \in 1..MaxPreview :
        /\ preview[r].status = "failed" /\ preview[r2].status = "ok"
        /\ previewTranslation = ""
        /\ Truthy(conversionState.error)

\* The recording flag as it stands for turn t: raised, with no later turn
\* started.
BusyRecording(t) == isRecording /\ nTurns = t

\* C13: every busy flag comes down again: once a conversion request or a chat
\* request has settled its loading flag is eventually false, and once a
\* turn's setup has failed or its session has failed to connect, errored or
\* closed, the recording flag is eventually false for that turn.
C13_BusyFlagsReturnToIdle ==
    /\ \A r \in 1..MaxConv :
          (conv[r].status \in {"ok", "failed"}) ~> ~conversionState.isLoading
    /\ \A r \in 1..MaxChat :
          (chat[r].status \in {"ok", "failed"}) ~> ~isLoading
    /\ \A t \in Turns :
          (pc[t] = "failed" \/ session[t] \in {"failed", "errored", "closed"})
              ~> ~BusyRecording(t)

\* The turn the controller holds: the flag is up, the turn's setup has
\* completed and the four refs point to the turn's objects.
Active(t) ==
    /\ isRecording /\ pc[t] = "wired"
    /\ processorRef = t /\ sourceRef = t /\ streamRef = t /\ audioContextRef = t

Released(t) ==
    /\ processor[t] = "disconnected" /\ source[t] = "disconnected"
    /\ stream[t] = "stopped" /\ ctx[t] = "closed"

RefsCleared ==
    processorRef = 0 /\ sourceRef = 0 /\ streamRef = 0 /\ audioContextRef = 0

\* C14: each exit of the active turn, by a stop request, by a remote error
\* notification or by a remote close notification, lowers isRecording,
\* releases the turn's processor connection, source node, stream tracks and
\* audio context, and clears the four refs.
C14_TeardownOnEveryExit ==
    [][\A t \in Turns :
          (/\ Active(t)
           /\ \/ handleMicClick
              \/ \E u \in Turns : onerror(u)
              \/ \E u \in Turns : onclose(u)) =>
              (~isRecording' /\ Released(t)' /\ RefsCleared')]_vars

\* C14 witness: a turn that was capturing has been torn down after its
\* session errored or closed.
C14_Witness ==
    \E t \in Turns :
        /\ pc[t] = "wired" /\ captured[t] > 0
        /\ session[t] \in {"errored", "closed"}
        /\ ~isRecording /\ Released(t) /\ RefsCleared

\* C15: a call of cleanupAudio releases every resource whose ref is set even
\* when one of its release calls throws: the releases that come after the
\* throwing call are still made and their refs cleared.
C15_TeardownSurvivesThrow ==
    [][\A throwAt \in ReleaseSteps :
          cleanupAudioCall(throwAt) =>
              /\ (throwAt < 2 /\ sourceRef # 0) =>
                    (source'[sourceRef] = "disconnected" /\ sourceRef' = 0)
              /\ (throwAt < 3 /\ streamRef # 0) =>
                    (stream'[streamRef] = "stopped" /\ streamRef' = 0)
              /\ (throwAt < 4 /\ audioContextRef # 0) =>
                    (ctx'[audioContextRef] = "closed" /\ audioContextRef' = 0)]_vars

\* C16: a call of cleanupAudio in which no release call throws releases
\* exactly the objects whose refs are set, one release call each, and clears
\* the four refs; a call made with all four refs null makes no release call
\* and changes nothing.
C16_ReleaseIdempotent ==
    [][cleanupAudioCall(0) =>
          /\ \A t \in Turns :
                /\ processor'[t] = IF processorRef = t THEN "disconnected"
                                   ELSE processor[t]
                /\ source'[t] = IF sourceRef = t THEN "disconnected" ELSE source[t]
                /\ stream'[t] = IF streamRef = t THEN "stopped" ELSE stream[t]
                /\ ctx'[t] = IF audioContextRef = t THEN "closed" ELSE ctx[t]
          /\ RefsCleared'
          /\ releaseCalls' = releaseCalls + Cardinality({k \in ReleaseSteps : RefAt(k) # 0})
          /\ RefsCleared => UNCHANGED vars]_vars

\* C16 witness: a partial acquisition (three of the four refs set) has been
\* released with three release calls, and the object of the fourth ref was
\* never touched.
C16_Witness ==
    /\ releaseCalls = 3 /\ RefsCleared
    /\ \E t \in Turns : ctx[t] = "closed" /\ processor[t] = "none"
    /\ \A t \in Turns : processor[t] = "none"

\* C17: in a turn whose session connects, the blocks passed to
\* sendRealtimeInput are the blocks captured, in capture order: while the
\* session handle is pending every captured block waits, in order, and once
\* it has resolved every captured block has been sent, in order, and none
\* waits.
C17_SendOrderIsCaptureOrder ==
    \A t \in Turns :
        /\ sessionPromise[t] = "pending" =>
              (sent[t] = <<>> /\ deferred[t] = [i \in 1..captured[t] |-> i])
        /\ sessionPromise[t] = "resolved" =>
              (sent[t] = [i \in 1..captured[t] |-> i] /\ deferred[t] = <<>>)

\* C17 witness: a turn whose session has opened has sent two captured blocks.
C17_Witness ==
    \E t \in Turns :
        /\ sessionPromise[t] = "resolved" /\ captured[t] >= 2
        /\ Len(sent[t]) = captured[t]

\* The 16-bit values a blob carries: its data decoded from base64 and read
\* two bytes at a time, low byte first, as signed integers.
DecodedInt16(blob) ==
    LET bytes == atob(blob.data)
    IN  [i \in 1..(Len(bytes) \div 2) |->
            ToInt16(bytes[2 * i - 1] + 256 * bytes[2 * i])]

\* C18: for a frame of N samples the payload createBlob encodes has exactly
\* 2N bytes, the low and the high byte of each sample's 16-bit value in that
\* order, and decoding the returned base64 text gives those 2N bytes back.
C18_BlobRoundTrip ==
    pcmBlob # NoBlob =>
        LET int16 == Int16Array(inputData)
            bytes == Uint8Array(int16)
        IN  /\ Len(bytes) = 2 * Len(inputData)
            /\ \A i \in 1..Len(inputData) :
                  /\ bytes[2 * i - 1] \in 0..255 /\ bytes[2 * i] \in 0..255
                  /\ bytes[2 * i - 1] + 256 * bytes[2 * i] = int16[i] % 65536
            /\ atob(pcmBlob.data) = bytes
            /\ Len(pcmBlob.data) = 4 * ((Len(bytes) + 2) \div 3)

\* C18 witness: a frame of two samples, one of them negative and neither
\* zero, has been encoded: four bytes, so the text ends in padding.
C18_Witness ==
    /\ pcmBlob # NoBlob
    /\ Len(inputData) = 2
    /\ inputData[1] = Sample(-1) /\ inputData[2] = Sample(SampleScale)
    /\ pcmBlob.data[Len(pcmBlob.data)] = "="

\* C19: every encoded 16-bit value lies in -32767..32767 and is the sample,
\* clamped to [-1, 1], times 32767 with the fraction dropped: a sample of 1
\* or more gives 32767, a sample of -1 or less gives -32767, and none wraps
\* around.
C19_ClampBeforeScale ==
    pcmBlob # NoBlob =>
        LET v == DecodedInt16(pcmBlob)
        IN  /\ Len(v) = Len(inputData)
            /\ \A i \in 1..Len(inputData) :
                  LET x == inputData[i]
                  IN  /\ v[i] \in -Int16Scale..Int16Scale
                      /\ x.nan => v[i] = 0
                      /\ (~x.nan /\ x.num >= SampleScale) => v[i] = Int16Scale
                      /\ (~x.nan /\ x.num <= -SampleScale) => v[i] = -Int16Scale
                      /\ (~x.nan /\ x.num \in -SampleScale..SampleScale) =>
                            v[i] = TruncDiv(x.num * Int16Scale, SampleScale)

\* C19 witness: a frame with a sample above 1 and a sample below -1 has been
\* encoded.
C19_Witness ==
    /\ pcmBlob # NoBlob
    /\ \E i, j \in 1..Len(inputData) :
          /\ ~inputData[i].nan /\ inputData[i].num > SampleScale
          /\ ~inputData[j].nan /\ inputData[j].num < -SampleScale

\* C20: starting a turn leaves the input as it is: neither the call of
\* startRecording nor its continuation after getUserMedia changes inputText,
\* and a fragment that arrives afterwards is appended to the text that was
\* there.
C20_StartKeepsInput ==
    [][/\ (nTurns' # nTurns \/ pc' # pc) => inputText' = inputText
       /\ (Len(received') = Len(received) + 1) =>
             inputText' = inputText \o received'[Len(received')]]_vars

\* C20 witness: a second turn has started after a fragment of the first turn
\* was appended to typed text, and the text is still there.
C20_Witness ==
    /\ nTurns = 2 /\ pc[2] = "awaitMedia"
    /\ turnBase # <<>>
    /\ received # <<>> /\ Head(received) # NoText
    /\ inputText = turnBase \o Flatten(received)

\* C21: a transcript fragment is appended to the input only while a turn is
\* recording: once the turn has been stopped (isRecording false) no message
\* of its session changes the input any more.
C21_NoFragmentAfterStop ==
    [][(Len(received') = Len(received) + 1 /\ inputText' # inputText)
          => isRecording]_vars

\* C22: a turn that is active is not disturbed by the session of an earlier
\* turn that was stopped and torn down: when that session reports an error
\* or closes, isRecording stays true and the later turn keeps its stream,
\* context, source and processor.
C22_TurnsIsolated ==
    [][\A u \in Turns, t \in Turns :
          (/\ u < t /\ pc[u] = "wired" /\ Released(u) /\ Active(t)
           /\ onerror(u) \/ onclose(u)) =>
              /\ isRecording'
              /\ stream'[t] = stream[t] /\ ctx'[t] = ctx[t]
              /\ source'[t] = source[t] /\ processor'[t] = processor[t]]_vars

\* No preview call is in flight and the debounce timer of the current input
\* has fired.
PreviewAtRest ==
    /\ previewTimer = "fired"
    /\ \A r \in 1..MaxPreview : preview[r].status # "inflight"

\* C23: whenever a preview is on display, no preview call is in flight and
\* the debounce timer has fired, the preview is the response to a call made
\* for the current input.
C23_PreviewNeverStale ==
    (previewTranslation # "" /\ PreviewAtRest) => previewedInput = inputText
====
